---- MODULE Spec2Model ----
(***************************************************************************)
(* Approval workflow engine of the expense management backend.             *)
(*                                                                         *)
(* The model follows backend/app/services/approval_service.py and the      *)
(* request handlers that call it (backend/app/api/expenses.py,             *)
(* backend/app/api/approvals.py).  The database is PostgreSQL behind       *)
(* SQLAlchemy AsyncSession objects (backend/app/database.py):              *)
(*   - every request owns one session; a session reads committed rows      *)
(*     (READ COMMITTED) and keeps what it has loaded in its identity map   *)
(*     (expire_on_commit=False), so a row loaded once is not re-read;      *)
(*   - attribute assignments stay in the session until the next            *)
(*     db.commit(), wherever in the call chain that commit is issued       *)
(*     (audit_service.log_action and                                       *)
(*     notification_service.create_notification both commit the caller's   *)
(*     session);                                                           *)
(*   - at flush the unit of work emits an UPDATE only for attributes       *)
(*     whose value differs from the value the session loaded.              *)
(***************************************************************************)
EXTENDS Integers, Sequences, FiniteSets, TLC

(***************************************************************************)
(* Bounds of the model.                                                    *)
(***************************************************************************)
MaxRules == 2        \* rows of approval_rules drawn in Init
MaxFaults == 1       \* storage faults injected in one behaviour
MaxAggLen == 6       \* approvals of the expense in the aggregation runs
MaxUpdates == 1      \* PUT requests on approvals in one behaviour
MaxResolveRules == 2 \* rows of approval_rules in the resolution runs
MaxQueryRows == 2    \* rows of approvals in the sweep and statistics runs
MaxDay == 5          \* the day of the sweep; creation days are 0..MaxDay
MaxSweeps == 2       \* overdue sweeps in one behaviour
MaxUnruledLen == 3   \* approvers in the aggregation runs with rules edited

(***************************************************************************)
(* Enumerations of backend/app/schemas.py.                                 *)
(***************************************************************************)
ExpenseStatus == {"draft", "pending", "approved", "rejected"}
ApprovalStatus == {"pending", "approved", "rejected"}
ApprovalType == {"compulsory", "necessary"}

Decisions == {"approved", "rejected"}

Sessions == {"s1", "s2"}

\* What tells the requests of the two sessions apart: the comment sent with
\* a decision and the reading of datetime.utcnow() while it is processed.
RequestComments(s) == IF s = "s1" THEN "c1" ELSE "c2"
utcnow(s) == IF s = "s1" THEN 1 ELSE 2

\* User ids.  User 0 submits the expense; the rules name users 1..3.
ExpenseOwner == 0
Approvers == 1..3

\* The expense of the model and what it belongs to.
ExpenseId == "e1"
ExpenseCategory == "cat1"
ExpenseCompany == "co1"

NoValue == "none"

Min(S) == CHOOSE x \in S : \A y \in S : x <= y

\* sum(1 for a in s if a.status == status), lines 258 and 264.
CountStatus(s, status) == Cardinality({i \in 1..Len(s) : s[i].status = status})

\* All orders in which the rows of the sequence s can be enumerated: a SELECT
\* without ORDER BY returns the rows in an order the database chooses.
Orders(s) ==
    {[i \in 1..Len(s) |-> s[p[i]]] : p \in Permutations(1..Len(s))}

(***************************************************************************)
(* Rows.  An ApprovalRule row (models.py:108-132) and an Approval row      *)
(* (models.py:172-191); the fields the approval engine reads or writes.    *)
(***************************************************************************)
Rule(id, company, category, user, type, seq, idx, active) ==
    [id |-> id, company_id |-> company, category_id |-> category,
     user_id |-> user, approval_type |-> type, is_sequential |-> seq,
     order_index |-> idx, is_active |-> active]

\* Approval(expense_id=..., approver_id=..., status=ApprovalStatus.pending):
\* comments and approved_at are NULL.
Approval(id, expense, approver) ==
    [id |-> id, expense_id |-> expense, approver_id |-> approver,
     status |-> "pending", comments |-> NoValue, approved_at |-> 0]

\* Percentage of approved necessary approvals below which the expense is
\* rejected.
ApprovalThreshold == 60

(***************************************************************************)
(* ApprovalService._get_approval_rules: the active rules of the category   *)
(* and company, ORDER BY order_index.  Rows with equal order_index come in *)
(* any order, so the result is a set of possible lists.                    *)
(***************************************************************************)
IsSortedByOrderIndex(s) ==
    \A i \in 1..Len(s) - 1 : s[i].order_index <= s[i + 1].order_index

_get_approval_rules(table, category_id, company_id) ==
    LET matching == SelectSeq(table, LAMBDA r :
                        /\ r.category_id = category_id
                        /\ r.company_id = company_id
                        /\ r.is_active)
    IN  {o \in Orders(matching) : IsSortedByOrderIndex(o)}

(***************************************************************************)
(* ApprovalService._calculate_expense_status, lines 226-276, on the lists  *)
(* the two SELECTs returned: approvals_ are the Approval rows of the       *)
(* expense and rules_ the active rules of its category, each in the order  *)
(* the database returned them.                                             *)
(***************************************************************************)
\* Variant of MatchingRuleType that takes an approval without a rule for a
\* compulsory one.
MatchingRuleTypeOrCompulsory(approval, rules_) ==
    LET idx == {i \in 1..Len(rules_) : rules_[i].user_id = approval.approver_id}
    IN  IF idx = {} THEN "compulsory" ELSE rules_[Min(idx)].approval_type

\* next((r for r in rules if r.user_id == approval.approver_id), None):
\* the approval type of the first matching rule, NoValue when there is none.
MatchingRuleType(approval, rules_) ==
    LET idx == {i \in 1..Len(rules_) : rules_[i].user_id = approval.approver_id}
    IN  IF idx = {} THEN NoValue ELSE rules_[Min(idx)].approval_type

compulsory_approvals(approvals_, rules_) ==
    SelectSeq(approvals_, LAMBDA a : MatchingRuleType(a, rules_) = "compulsory")

necessary_approvals(approvals_, rules_) ==
    SelectSeq(approvals_, LAMBDA a : MatchingRuleType(a, rules_) = "necessary")

\* The loop of lines 251-255: the status of the first compulsory approval
\* in the list that is rejected or pending decides; NoValue when the loop
\* runs to its end.
CompulsoryGate(compulsory) ==
    LET idx == {i \in 1..Len(compulsory) :
                    compulsory[i].status \in {"rejected", "pending"}}
    IN  IF idx = {} THEN NoValue ELSE compulsory[Min(idx)].status

\* Variant of BelowThreshold with <= in place of <.
BelowThresholdInclusive(necessary) ==
    LET necessary_approved == CountStatus(necessary, "approved")
    IN  necessary_approved * 100 <= ApprovalThreshold * Len(necessary)

\* Lines 263-273: approval_percentage = approved / total * 100 compared
\* with 60.  The comparison is done on integers: a / n * 100 < 60 in
\* floating point agrees with a * 100 < 60 * n for every 0 <= a <= n < 2000.
BelowThreshold(necessary) ==
    LET necessary_approved == CountStatus(necessary, "approved")
        total_necessary == Len(necessary)
    IN  necessary_approved * 100 < ApprovalThreshold * total_necessary

\* Variant of _calculate_expense_status in which a pending compulsory
\* approval does not hold the expense back.
CalculateIgnoringPendingCompulsory(approvals_, rules_) ==
    IF approvals_ = <<>> THEN "pending"
    ELSE LET compulsory == compulsory_approvals(approvals_, rules_)
             necessary == necessary_approvals(approvals_, rules_)
         IN  IF \E i \in 1..Len(compulsory) : compulsory[i].status = "rejected"
                 THEN "rejected"
             ELSE IF necessary # <<>> /\ BelowThreshold(necessary)
                 THEN "rejected"
             ELSE "approved"

\* Variant of _calculate_expense_status that waits for every necessary
\* approval before it applies the threshold.
CalculateWaitingForNecessary(approvals_, rules_) ==
    IF approvals_ = <<>> THEN "pending"
    ELSE LET compulsory == compulsory_approvals(approvals_, rules_)
             necessary == necessary_approvals(approvals_, rules_)
         IN  IF CompulsoryGate(compulsory) # NoValue
                 THEN CompulsoryGate(compulsory)
             ELSE IF \E i \in 1..Len(necessary) : necessary[i].status = "pending"
                 THEN "pending"
             ELSE IF necessary # <<>> /\ BelowThreshold(necessary)
                 THEN "rejected"
             ELSE "approved"

_calculate_expense_status(approvals_, rules_) ==
    IF approvals_ = <<>> THEN "pending"
    ELSE LET compulsory == compulsory_approvals(approvals_, rules_)
             necessary == necessary_approvals(approvals_, rules_)
             compulsory_approved ==
                 CountStatus(compulsory, "approved")
         IN  IF CompulsoryGate(compulsory) # NoValue
                 THEN CompulsoryGate(compulsory)
             ELSE IF compulsory_approved < Len(compulsory) THEN "pending"
             ELSE IF necessary # <<>> /\ BelowThreshold(necessary)
                 THEN "rejected"
             ELSE "approved"

\* The two SELECTs of _calculate_expense_status: the approvals of the
\* expense (lines 219-224) and the active rules of its category, of any
\* company (lines 230-235), as the rows stand in their tables.
ExpenseApprovals(table, expense_id) ==
    SelectSeq(table, LAMBDA a : a.expense_id = expense_id)

ActiveCategoryRules(table, category_id) ==
    SelectSeq(table, LAMBDA r : r.category_id = category_id /\ r.is_active)

\* Neither SELECT has an ORDER BY.
CategoryRules(table, category_id) ==
    Orders(ActiveCategoryRules(table, category_id))

(***************************************************************************)
(* State.                                                                  *)
(*   rules, users, expense, approvals: the committed rows of the tables    *)
(*     approval_rules, users, expenses (the one expense of the model) and  *)
(*     approvals;                                                          *)
(*   sess: for each request in flight, where its handler stands and what   *)
(*     its AsyncSession holds (loaded and assigned attributes);            *)
(*   ret: the answer the last step gave to its caller, if it gave one;     *)
(*   okCount: for each approver, the process_approval calls on the         *)
(*     approver's approval that returned (True, None);                     *)
(*   fault_budget: storage faults that can still be injected;              *)
(*   agg_status: result of the last aggregation of the aggregation runs;   *)
(*   updates: PUT requests on approvals processed so far;                  *)
(*   resolved: result of the last rule resolution of the resolution runs;  *)
(*   sweeps: the overdue sweeps run so far and what the last one returned; *)
(*   notifications: for each approver, the overdue notifications stored;   *)
(*   statistics: the last statistics request and its result.               *)
(***************************************************************************)
VARIABLES rules, users, expense, approvals, sess, ret, okCount,
          fault_budget, agg_status, updates, resolved, sweeps, notifications,
          statistics

vars == <<rules, users, expense, approvals, sess, ret, okCount,
          fault_budget, agg_status, updates, resolved, sweeps, notifications,
          statistics>>

IdleSession ==
    [pc |-> "idle", aid |-> 0, user |-> 0, status |-> NoValue,
     comments |-> NoValue, approved_at |-> 0, exp_status |-> NoValue,
     computed |-> NoValue, wf_rules |-> <<>>, wf_i |-> 0, wf_made |-> <<>>,
     wf_ret |-> <<>>]

\* No overdue sweep has run.
NoSweep == [runs |-> 0, result |-> <<>>]

\* No statistics have been requested.
NoStatistics ==
    [approver |-> 0, start_date |-> <<>>, end_date |-> <<>>,
     result |-> [total_processed |-> 0, pending |-> 0, approved |-> 0,
                 rejected |-> 0]]

\* No rule resolution has been made.
NoResolution == [category_id |-> NoValue, company_id |-> NoValue, rules |-> <<>>]

NoResponse == [session |-> NoValue, value |-> NoValue, call |-> IdleSession]

\* Rule tables of the model: up to MaxRules rules of the expense's company
\* and category, each naming an approver, a type and whether it is active.
\* No query depends on the position of a row in the table, so one table
\* stands for its permutations.
RuleKey(r) ==
    4 * r[1] + 2 * (IF r[2] = "compulsory" THEN 0 ELSE 1)
             + (IF r[3] THEN 0 ELSE 1)

RuleTables ==
    {t \in UNION {[1..n -> Approvers \X ApprovalType \X BOOLEAN] :
                    n \in 0..MaxRules} :
        \A i \in 1..Len(t) - 1 : RuleKey(t[i]) <= RuleKey(t[i + 1])}

RuleTable(t) ==
    [i \in 1..Len(t) |->
        Rule(i, ExpenseCompany, ExpenseCategory, t[i][1], t[i][2], FALSE, 0,
             t[i][3])]

\* Users 0..2 are active members of the expense's company; user 3 has been
\* deactivated.
UserTable ==
    [u \in {ExpenseOwner} \cup Approvers |->
        [company_id |-> ExpenseCompany, is_active |-> u # 3]]

InitTables ==
    /\ rules \in {RuleTable(t) : t \in RuleTables}
    /\ users = UserTable
    /\ expense = [id |-> ExpenseId, company_id |-> ExpenseCompany,
                  category_id |-> ExpenseCategory, user_id |-> ExpenseOwner,
                  status |-> "draft"]
    /\ approvals = <<>>
    /\ sess = [s \in Sessions |-> IdleSession]
    /\ ret = NoResponse
    /\ okCount = [u \in Approvers |-> 0]
    /\ agg_status = NoValue
    /\ updates = 0
    /\ resolved = NoResolution
    /\ sweeps = NoSweep
    /\ notifications = [u \in Approvers |-> 0]
    /\ statistics = NoStatistics

\* The storage works.
Init ==
    /\ InitTables
    /\ fault_budget = 0

\* Up to MaxFaults storage operations fail.
InitFaults ==
    /\ InitTables
    /\ fault_budget = MaxFaults

\* The users that can send requests (auth.get_current_active_user).
ActiveUsers == {u \in DOMAIN users : users[u].is_active}

\* The handler of session s goes on with the session state next.
Continue(s, next) ==
    /\ sess' = [sess EXCEPT ![s] = next]
    /\ ret' = NoResponse

\* The handler of session s answers value to the request call and the
\* request ends.
Respond(s, call, value) ==
    /\ sess' = [sess EXCEPT ![s] = IdleSession]
    /\ ret' = [session |-> s, value |-> value, call |-> call]

\* A storage operation fails.
Fault ==
    /\ fault_budget > 0
    /\ fault_budget' = fault_budget - 1

(***************************************************************************)
(* ApprovalService.process_approval (approval_service.py:119-204), one     *)
(* action per stretch of code that ends with a commit or a return.         *)
(***************************************************************************)
\* Approval ids a request can name: the rows that can exist and one more.
ApprovalIds == 1..(MaxRules + 1)

\* Variant of FindApproval that selects by id alone.
FindApprovalById(table, approval_id, approver_id) ==
    {i \in 1..Len(table) : table[i].id = approval_id}

\* Lines 142-147: SELECT ... WHERE Approval.id = :approval_id AND
\* Approval.approver_id = :approver_id; the positions of the rows selected.
FindApproval(table, approval_id, approver_id) ==
    {i \in 1..Len(table) :
        /\ table[i].id = approval_id
        /\ table[i].approver_id = approver_id}

\* Variant of StillPending that lets a decided approval through.
StillPendingOrDecided(approval) == approval.status \in ApprovalStatus

\* Line 152: the approval has not been processed yet.
StillPending(approval) == approval.status = "pending"

\* Lines 142-158: SELECT the approval by id and approver; the two early
\* returns; the assignments to the loaded row.  The expense comes with the
\* row (selectinload) and stays in the session as loaded.
process_approval_load(s) ==
    /\ sess[s].pc = "idle"
    /\ \E approval_id \in ApprovalIds, approver \in ActiveUsers,
          status \in Decisions :
        LET found == FindApproval(approvals, approval_id, approver)
            request == [IdleSession EXCEPT !.aid = approval_id,
                                           !.user = approver]
            call == [request EXCEPT
                        !.pc = "audit", !.status = status,
                        !.comments = RequestComments(s),
                        !.approved_at = utcnow(s),
                        !.exp_status = expense.status]
        IN  IF found = {}
                THEN Respond(s, request, "not_found")
            ELSE IF \E i \in found : ~ StillPending(approvals[i])
                THEN Respond(s, request, "already_processed")
            ELSE Continue(s, call)
    /\ UNCHANGED <<rules, users, expense, approvals, okCount, fault_budget,
                   agg_status, updates, resolved, sweeps,
                   notifications, statistics>>

\* The UPDATE the flush emits for the session's approval row: the assigned
\* attributes, WHERE approvals.id = :id.
FlushApproval(table, call) ==
    [i \in 1..Len(table) |->
        IF table[i].id = call.aid
            THEN [table[i] EXCEPT !.status = call.status,
                                  !.comments = call.comments,
                                  !.approved_at = call.approved_at]
            ELSE table[i]]

\* Lines 161-174: audit_service.log_action adds the audit row and commits
\* the session (audit_service.py:71-72), which flushes and commits the
\* approval's new status, comments and approved_at.  When the commit fails,
\* log_action re-raises and lines 201-204 roll back and return the error.
process_approval_audit(s) ==
    /\ sess[s].pc = "audit"
    /\ \/ /\ approvals' = FlushApproval(approvals, sess[s])
          /\ Continue(s, [sess[s] EXCEPT !.pc = "calculate"])
          /\ UNCHANGED fault_budget
       \/ /\ Fault
          /\ Respond(s, sess[s], "error")
          /\ UNCHANGED approvals
    /\ UNCHANGED <<rules, users, expense, okCount, agg_status, updates, resolved, sweeps,
                   notifications, statistics>>

\* The Approval rows of the expense as the session's SELECT yields them:
\* committed rows, except that the row the session already holds keeps the
\* session's attribute values.
SessionApprovals(s) ==
    ExpenseApprovals(FlushApproval(approvals, sess[s]), expense.id)

\* Line 177: _calculate_expense_status over the rows read now; an exception
\* inside it yields pending (lines 278-280).
process_approval_calculate(s) ==
    /\ sess[s].pc = "calculate"
    /\ \/ /\ \E approvals_ \in Orders(SessionApprovals(s)),
                rules_ \in CategoryRules(rules, expense.category_id) :
                Continue(s, [sess[s] EXCEPT
                    !.computed = _calculate_expense_status(approvals_, rules_),
                    !.pc = "commit"])
          /\ UNCHANGED fault_budget
       \/ /\ Fault
          /\ Continue(s, [sess[s] EXCEPT !.computed = "pending",
                                         !.pc = "commit"])
    /\ UNCHANGED <<rules, users, expense, approvals, okCount, agg_status,
                   updates, resolved, sweeps,
                   notifications, statistics>>

\* Variant of FlushExpense that never writes the expense.
FlushExpenseNever(row, call) == row

\* The UPDATE the flush emits for the session's expense: none when the
\* assigned status equals the status the session loaded.
FlushExpense(row, call) ==
    IF call.computed # call.exp_status
        THEN [row EXCEPT !.status = call.computed]
        ELSE row

\* Lines 180-199: approval.expense.status = expense_status; db.commit();
\* create_notification for the submitter (it commits, and re-raises what
\* goes wrong, notification_service.py:70-84); return True, None.  An
\* exception at either commit ends in lines 201-204; the answer to a call
\* that fails in create_notification has the call at "notify".
process_approval_commit(s) ==
    /\ sess[s].pc = "commit"
    /\ \/ /\ expense' = FlushExpense(expense, sess[s])
          /\ okCount' = [okCount EXCEPT ![sess[s].user] = @ + 1]
          /\ Respond(s, sess[s], "ok")
          /\ UNCHANGED fault_budget
       \/ /\ Fault
          /\ Respond(s, sess[s], "error")
          /\ UNCHANGED <<expense, okCount>>
       \/ /\ Fault
          /\ expense' = FlushExpense(expense, sess[s])
          /\ Respond(s, [sess[s] EXCEPT !.pc = "notify"], "error")
          /\ UNCHANGED okCount
    /\ UNCHANGED <<rules, users, approvals, agg_status, updates, resolved, sweeps,
                   notifications, statistics>>

(***************************************************************************)
(* update_approval (api/approvals.py:211-274), the PUT on an approval.     *)
(***************************************************************************)
\* ApprovalUpdate (schemas.py:301-304): status is required and can be any
\* ApprovalStatus; comments can be left unset.
UpdateData ==
    [status : ApprovalStatus, comments : {NoValue, "put"}]

\* Lines 221-248: SELECT the approval by id and approver, 404 when there is
\* none; setattr of every field of the request that is set; db.commit().
\* The audit entry of lines 251-261 follows the commit.
update_approval(s) ==
    /\ sess[s].pc = "idle"
    /\ updates < MaxUpdates
    /\ \E approval_id \in ApprovalIds, current_user \in ActiveUsers,
          update_data \in UpdateData :
        LET found == {i \in 1..Len(approvals) :
                        /\ approvals[i].id = approval_id
                        /\ approvals[i].approver_id = current_user}
            request == [IdleSession EXCEPT !.aid = approval_id,
                                           !.user = current_user,
                                           !.pc = "update"]
        IN  IF found = {}
                THEN /\ Respond(s, request, "not_found")
                     /\ UNCHANGED approvals
                ELSE /\ approvals' =
                        [i \in 1..Len(approvals) |->
                            IF i \in found
                                THEN [approvals[i] EXCEPT
                                        !.status = update_data.status,
                                        !.comments =
                                            IF update_data.comments = NoValue
                                                THEN @
                                                ELSE update_data.comments]
                                ELSE approvals[i]]
                     /\ Respond(s, request, "updated")
    /\ updates' = updates + 1
    /\ UNCHANGED <<rules, users, expense, okCount, fault_budget, agg_status,
                   resolved, sweeps,
                   notifications, statistics>>

(***************************************************************************)
(* submit_expense (api/expenses.py:331-395) and                            *)
(* ApprovalService.create_approval_workflow (approval_service.py:32-117),  *)
(* which it calls on the same session.                                     *)
(***************************************************************************)
\* expenses.py:339-365: SELECT the expense by id, company and owner; 404
\* when there is none, 400 when it is not a draft; then the assignments.
submit_expense_load(s) ==
    /\ sess[s].pc = "idle"
    /\ \E current_user \in ActiveUsers :
        IF ~ (/\ expense.company_id = users[current_user].company_id
              /\ expense.user_id = current_user)
            THEN Respond(s, sess[s], "not_found")
        ELSE IF expense.status # "draft"
            THEN Respond(s, sess[s], "not_draft")
        ELSE Continue(s, [IdleSession EXCEPT !.pc = "submit_commit",
                                             !.user = current_user,
                                             !.exp_status = expense.status])
    /\ UNCHANGED <<rules, users, expense, approvals, okCount, fault_budget,
                   agg_status, updates, resolved, sweeps,
                   notifications, statistics>>

\* expenses.py:364-367: expense.status = "pending"; db.commit().
submit_expense_commit(s) ==
    /\ sess[s].pc = "submit_commit"
    /\ \/ /\ expense' = [expense EXCEPT !.status = "pending"]
          /\ Continue(s, [sess[s] EXCEPT !.pc = "workflow_rules"])
          /\ UNCHANGED fault_budget
       \/ /\ Fault
          /\ Respond(s, sess[s], "error")
          /\ UNCHANGED expense
    /\ UNCHANGED <<rules, users, approvals, okCount, agg_status, updates, resolved, sweeps,
                   notifications, statistics>>

\* approval_service.py:49-58: the rules of the expense's category; without
\* rules the workflow is the empty list.
create_approval_workflow_rules(s) ==
    /\ sess[s].pc = "workflow_rules"
    /\ \E approval_rules \in
            _get_approval_rules(rules, expense.category_id, expense.company_id) :
        IF approval_rules = <<>>
            THEN Continue(s, [sess[s] EXCEPT !.wf_ret = <<>>,
                                             !.pc = "submit_audit"])
            ELSE Continue(s, [sess[s] EXCEPT !.wf_rules = approval_rules,
                                             !.wf_i = 1,
                                             !.pc = "workflow_loop"])
    /\ UNCHANGED <<rules, users, expense, approvals, okCount, fault_budget,
                   agg_status, updates, resolved, sweeps,
                   notifications, statistics>>

\* Variant of EligibleApprover that only asks for the user to exist.
EligibleApproverExists(user_id) == user_id \in DOMAIN users

\* Variant of EligibleApprover without the is_active test.
EligibleApproverInactive(user_id) ==
    /\ user_id \in DOMAIN users
    /\ users[user_id].company_id = expense.company_id

\* Line 67: the approver exists, is active and belongs to the expense's
\* company.
EligibleApprover(user_id) ==
    /\ user_id \in DOMAIN users
    /\ users[user_id].is_active
    /\ users[user_id].company_id = expense.company_id

\* Variant of UniqueViolation for a table without the constraint.
UniqueViolationNever(table, row) == FALSE

\* uq_approvals_expense_approver (models.py:190): the INSERT of a row is
\* refused when the table holds a row of the same expense and approver.
UniqueViolation(table, row) ==
    \E i \in 1..Len(table) :
        /\ table[i].expense_id = row.expense_id
        /\ table[i].approver_id = row.approver_id

\* Lines 61-93, one iteration of the loop: skip an inactive rule or an
\* ineligible approver; otherwise add the Approval and call
\* create_notification, whose commit inserts and commits the Approval.  When
\* the commit fails the exception reaches lines 114-117: rollback, return [].
create_approval_workflow_rule(s) ==
    /\ sess[s].pc = "workflow_loop"
    /\ sess[s].wf_i <= Len(sess[s].wf_rules)
    /\ LET rule == sess[s].wf_rules[sess[s].wf_i]
           approval == Approval(Len(approvals) + 1, expense.id, rule.user_id)
           failed == [sess[s] EXCEPT !.wf_ret = <<>>, !.pc = "submit_audit"]
       IN  IF ~ rule.is_active \/ ~ EligibleApprover(rule.user_id)
               THEN /\ Continue(s, [sess[s] EXCEPT !.wf_i = @ + 1])
                    /\ UNCHANGED <<approvals, fault_budget>>
           ELSE IF UniqueViolation(approvals, approval)
               THEN /\ Continue(s, failed)
                    /\ UNCHANGED <<approvals, fault_budget>>
           ELSE \/ /\ approvals' = Append(approvals, approval)
                   /\ Continue(s, [sess[s] EXCEPT
                          !.wf_made = Append(@, approval.id),
                          !.wf_i = @ + 1])
                   /\ UNCHANGED fault_budget
                \/ /\ Fault
                   /\ Continue(s, failed)
                   /\ UNCHANGED approvals
    /\ UNCHANGED <<rules, users, expense, okCount, agg_status, updates, resolved, sweeps,
                   notifications, statistics>>

\* Lines 95-112, after the loop: commit, the audit entry (log_action
\* commits and re-raises), return approvals; lines 114-117 on an exception.
create_approval_workflow_finish(s) ==
    /\ sess[s].pc = "workflow_loop"
    /\ sess[s].wf_i > Len(sess[s].wf_rules)
    /\ \/ /\ Continue(s, [sess[s] EXCEPT !.wf_ret = sess[s].wf_made,
                                         !.pc = "submit_audit"])
          /\ UNCHANGED fault_budget
       \/ /\ Fault
          /\ Continue(s, [sess[s] EXCEPT !.wf_ret = <<>>,
                                         !.pc = "submit_audit"])
    /\ UNCHANGED <<rules, users, expense, approvals, okCount, agg_status,
                   updates, resolved, sweeps,
                   notifications, statistics>>

\* expenses.py:372-395: the audit entry of the submission, then the answer.
submit_expense_audit(s) ==
    /\ sess[s].pc = "submit_audit"
    /\ \/ /\ Respond(s, sess[s], "submitted")
          /\ UNCHANGED fault_budget
       \/ /\ Fault
          /\ Respond(s, sess[s], "error")
    /\ UNCHANGED <<rules, users, expense, approvals, okCount, agg_status,
                   updates, resolved, sweeps,
                   notifications, statistics>>

(***************************************************************************)
(* Specifications.                                                         *)
(*   Spec: the requests of the two sessions interleave step by step; the   *)
(*     storage works.                                                      *)
(*   SpecFaults: up to MaxFaults storage operations fail; a request starts *)
(*     and runs while the other session is idle.                           *)
(***************************************************************************)
Step(s) ==
    \/ process_approval_load(s)
    \/ process_approval_audit(s)
    \/ process_approval_calculate(s)
    \/ process_approval_commit(s)
    \/ submit_expense_load(s)
    \/ submit_expense_commit(s)
    \/ create_approval_workflow_rules(s)
    \/ create_approval_workflow_rule(s)
    \/ create_approval_workflow_finish(s)
    \/ submit_expense_audit(s)

Next == \E s \in Sessions : Step(s)

Spec == Init /\ [][Next]_vars

Alone(s) == \A t \in Sessions \ {s} : sess[t].pc = "idle"

NextSequential == \E s \in Sessions : Alone(s) /\ Step(s)

SpecFaults == InitFaults /\ [][NextSequential]_vars

\* Rule tables whose rules carry the category's is_sequential flag and
\* their position as order_index.
SequentialRuleTable(t, is_sequential) ==
    [i \in 1..Len(t) |->
        Rule(i, ExpenseCompany, ExpenseCategory, t[i][1], t[i][2],
             is_sequential, i, t[i][3])]

InitSequential ==
    /\ rules \in {SequentialRuleTable(t, is_sequential) :
                    t \in RuleTables, is_sequential \in BOOLEAN}
    /\ users = UserTable
    /\ expense = [id |-> ExpenseId, company_id |-> ExpenseCompany,
                  category_id |-> ExpenseCategory, user_id |-> ExpenseOwner,
                  status |-> "draft"]
    /\ approvals = <<>>
    /\ sess = [s \in Sessions |-> IdleSession]
    /\ ret = NoResponse
    /\ okCount = [u \in Approvers |-> 0]
    /\ fault_budget = 0
    /\ agg_status = NoValue
    /\ updates = 0
    /\ resolved = NoResolution
    /\ sweeps = NoSweep
    /\ notifications = [u \in Approvers |-> 0]
    /\ statistics = NoStatistics

\* SpecSequential: the storage works, one request at a time, and the rules
\* of the category are flagged sequential or not.
SpecSequential == InitSequential /\ [][NextSequential]_vars

\* SpecUpdate: the storage works, a request starts and runs while the other
\* session is idle, and the requests include the PUT on an approval.
NextUpdate ==
    \E s \in Sessions : Alone(s) /\ (Step(s) \/ update_approval(s))

SpecUpdate == Init /\ [][NextUpdate]_vars

(***************************************************************************)
(* Aggregation runs: _calculate_expense_status applied to the approvals    *)
(* and rules of an expense with up to MaxAggLen approvers.  Approver i has *)
(* one active rule of the expense's category and the i-th approval row, so *)
(* the rows come in every order of types and statuses.                     *)
(***************************************************************************)
AggApproval(i, status) ==
    [Approval(i, ExpenseId, i) EXCEPT
        !.status = status,
        !.comments = IF status = "pending" THEN NoValue ELSE "c1",
        !.approved_at = IF status = "pending" THEN 0 ELSE 1]

InitAgg ==
    /\ \E n \in 0..MaxAggLen :
         \E types \in [1..n -> ApprovalType],
            statuses \in [1..n -> ApprovalStatus] :
            /\ rules = [i \in 1..n |->
                    Rule(i, ExpenseCompany, ExpenseCategory, i, types[i],
                         FALSE, 0, TRUE)]
            /\ approvals = [i \in 1..n |-> AggApproval(i, statuses[i])]
    /\ users = [u \in 0..MaxAggLen |->
                    [company_id |-> ExpenseCompany, is_active |-> TRUE]]
    /\ expense = [id |-> ExpenseId, company_id |-> ExpenseCompany,
                  category_id |-> ExpenseCategory, user_id |-> ExpenseOwner,
                  status |-> "pending"]
    /\ sess = [s \in Sessions |-> IdleSession]
    /\ ret = NoResponse
    /\ okCount = [u \in Approvers |-> 0]
    /\ fault_budget = 0
    /\ agg_status = NoValue
    /\ updates = 0
    /\ resolved = NoResolution
    /\ sweeps = NoSweep
    /\ notifications = [u \in Approvers |-> 0]
    /\ statistics = NoStatistics

aggregate ==
    /\ agg_status = NoValue
    /\ agg_status' = _calculate_expense_status(
                        ExpenseApprovals(approvals, expense.id),
                        ActiveCategoryRules(rules, expense.category_id))
    /\ UNCHANGED <<rules, users, expense, approvals, sess, ret, okCount,
                   fault_budget, updates, resolved, sweeps,
                   notifications, statistics>>

SpecAgg == InitAgg /\ [][aggregate]_vars

(***************************************************************************)
(* Resolution runs: _get_approval_rules applied to tables of up to         *)
(* MaxResolveRules rules of two companies, for a category, another         *)
(* category or no category (category_id IS NULL), active or not, with      *)
(* order_index 0 or 1.                                                     *)
(***************************************************************************)
OtherCategory == "cat2"
OtherCompany == "co2"

ResolveRows ==
    {ExpenseCompany, OtherCompany}
        \X {ExpenseCategory, OtherCategory, NoValue}
        \X (1..2) \X (0..1) \X BOOLEAN

InitResolve ==
    /\ \E n \in 0..MaxResolveRules :
         \E t \in [1..n -> ResolveRows] :
            rules = [i \in 1..n |->
                        Rule(i, t[i][1], t[i][2], t[i][3], "compulsory", FALSE,
                             t[i][4], t[i][5])]
    /\ users = UserTable
    /\ expense = [id |-> ExpenseId, company_id |-> ExpenseCompany,
                  category_id |-> ExpenseCategory, user_id |-> ExpenseOwner,
                  status |-> "draft"]
    /\ approvals = <<>>
    /\ sess = [s \in Sessions |-> IdleSession]
    /\ ret = NoResponse
    /\ okCount = [u \in Approvers |-> 0]
    /\ fault_budget = 0
    /\ agg_status = NoValue
    /\ updates = 0
    /\ resolved = NoResolution
    /\ sweeps = NoSweep
    /\ notifications = [u \in Approvers |-> 0]
    /\ statistics = NoStatistics

\* One call of _get_approval_rules for a category (or none) of the
\* expense's company.
resolve ==
    /\ resolved = NoResolution
    /\ \E category_id \in {ExpenseCategory, NoValue} :
        \E result \in _get_approval_rules(rules, category_id, ExpenseCompany) :
            resolved' = [category_id |-> category_id,
                         company_id |-> ExpenseCompany,
                         rules |-> result]
    /\ UNCHANGED <<rules, users, expense, approvals, sess, ret, okCount,
                   fault_budget, agg_status, updates, sweeps, notifications,
                   statistics>>

SpecResolve == InitResolve /\ [][resolve]_vars

(***************************************************************************)
(* Sweep and statistics runs: tables of up to MaxQueryRows approvals of    *)
(* approvers 1 and 2, of any status, created on any day up to MaxDay.      *)
(* Times are whole days.                                                   *)
(***************************************************************************)
QueryApprovers == 1..2

QueryApproval(i, approver, status, created_at) ==
    [id |-> i, expense_id |-> ExpenseId, approver_id |-> approver,
     status |-> status, created_at |-> created_at]

QueryRows == QueryApprovers \X ApprovalStatus \X (0..MaxDay)

InitQuery ==
    /\ \E n \in 0..MaxQueryRows :
         \E t \in [1..n -> QueryRows] :
            approvals = [i \in 1..n |->
                            QueryApproval(i, t[i][1], t[i][2], t[i][3])]
    /\ rules = <<>>
    /\ users = UserTable
    /\ expense = [id |-> ExpenseId, company_id |-> ExpenseCompany,
                  category_id |-> ExpenseCategory, user_id |-> ExpenseOwner,
                  status |-> "pending"]
    /\ sess = [s \in Sessions |-> IdleSession]
    /\ ret = NoResponse
    /\ okCount = [u \in Approvers |-> 0]
    /\ fault_budget = 0
    /\ agg_status = NoValue
    /\ updates = 0
    /\ resolved = NoResolution
    /\ sweeps = NoSweep
    /\ notifications = [u \in Approvers |-> 0]
    /\ statistics = NoStatistics

\* approval_service.py:30.
overdue_threshold_days == 3

\* datetime.utcnow() has no tzinfo; Approval.created_at is a
\* DateTime(timezone=True) column, which the driver loads with tzinfo.
utcnow_aware == FALSE
created_at_aware == TRUE

\* datetime.__sub__: a datetime with tzinfo and one without cannot be
\* subtracted (TypeError).
CanSubtract(a_aware, b_aware) == a_aware = b_aware

\* Lines 400-416: the pending approvals created before the cutoff.
OverdueRows(table, now) ==
    LET cutoff_date == now - overdue_threshold_days
    IN  SelectSeq(table, LAMBDA approval :
            /\ approval.status = "pending"
            /\ approval.created_at < cutoff_date)

\* ApprovalService.check_overdue_approvals (lines 399-437) for one order
\* of the rows selected: what it returns and the approvers whose
\* notification it stored.  The metadata of the first notification
\* subtracts approval.created_at from datetime.utcnow() (line 427); when
\* that raises, lines 435-437 return the empty list and nothing has been
\* stored.
ServiceSweep(overdue_approvals) ==
    IF overdue_approvals = <<>>
            \/ CanSubtract(utcnow_aware, created_at_aware)
        THEN [value |-> overdue_approvals,
              notified |-> [k \in 1..Len(overdue_approvals) |->
                                overdue_approvals[k].approver_id]]
        ELSE [value |-> <<>>, notified |-> <<>>]

\* Number of positions of a sequence that hold a value.
Occurrences(seq, value) ==
    Cardinality({k \in 1..Len(seq) : seq[k] = value})

\* The task check_overdue_approvals (notification_tasks.py:113-143): the
\* service's sweep, then one more notification for every approval the
\* service returned.
check_overdue_approvals ==
    /\ sweeps.runs < MaxSweeps
    /\ \E overdue_approvals \in Orders(OverdueRows(approvals, MaxDay)) :
        LET swept == ServiceSweep(overdue_approvals)
            task_notified == [k \in 1..Len(swept.value) |->
                                    swept.value[k].approver_id]
        IN  /\ sweeps' = [runs |-> sweeps.runs + 1,
                          result |-> [k \in 1..Len(swept.value) |->
                                            swept.value[k].id]]
            /\ notifications' =
                    [u \in Approvers |->
                        notifications[u] + Occurrences(swept.notified, u)
                                         + Occurrences(task_notified, u)]
    /\ UNCHANGED <<rules, users, expense, approvals, sess, ret, okCount,
                   fault_budget, agg_status, updates, resolved, statistics>>

SpecSweep == InitQuery /\ [][check_overdue_approvals]_vars

\* An optional date of a request: none, or a day.
OptionalDates == {<<>>} \cup {<<d>> : d \in 0..MaxDay}

\* Lines 485-492: the approver's approvals, created on or after start_date
\* when it is given and on or before end_date when it is given.
date_filter(table, approver, start_date, end_date) ==
    SelectSeq(table, LAMBDA approval :
        /\ approval.approver_id = approver
        /\ start_date # <<>> => approval.created_at >= start_date[1]
        /\ end_date # <<>> => approval.created_at <= end_date[1])

\* Lines 506-515: the approver's pending approvals, whatever their date.
total_pending(table, approver) ==
    Len(SelectSeq(table, LAMBDA approval :
        /\ approval.approver_id = approver
        /\ approval.status = "pending"))

\* ApprovalService.get_approval_statistics (lines 483-537) without the
\* average approval time: the counts by status of the rows of date_filter,
\* and total_pending.
approval_statistics(table, approver, start_date, end_date) ==
    LET filtered == date_filter(table, approver, start_date, end_date)
    IN  [total_processed |-> Len(filtered),
         pending |-> total_pending(table, approver),
         approved |-> CountStatus(filtered, "approved"),
         rejected |-> CountStatus(filtered, "rejected")]

\* GET /statistics/dashboard (api/approvals.py:277-298) by an approver, once
\* in a run.
get_approval_statistics ==
    /\ statistics = NoStatistics
    /\ \E current_user \in QueryApprovers,
          start_date \in OptionalDates, end_date \in OptionalDates :
        statistics' =
            [approver |-> current_user, start_date |-> start_date,
             end_date |-> end_date,
             result |-> approval_statistics(approvals, current_user,
                                            start_date, end_date)]
    /\ UNCHANGED <<rules, users, expense, approvals, sess, ret, okCount,
                   fault_budget, agg_status, updates, resolved, sweeps,
                   notifications>>

SpecStats == InitQuery /\ [][get_approval_statistics]_vars

(***************************************************************************)
(* Aggregation runs after rule edits: up to MaxUnruledLen approvers, each  *)
(* with an approval row; the rule that named approver i is still active,   *)
(* has been deactivated, or has been moved to another category.            *)
(***************************************************************************)
RuleStates == {"active", "inactive", "moved"}

InitUnruled ==
    /\ \E n \in 0..MaxUnruledLen :
         \E types \in [1..n -> ApprovalType],
            statuses \in [1..n -> ApprovalStatus],
            states \in [1..n -> RuleStates] :
            /\ rules = [i \in 1..n |->
                    Rule(i, ExpenseCompany,
                         IF states[i] = "moved" THEN OtherCategory
                                                ELSE ExpenseCategory,
                         i, types[i], FALSE, 0, states[i] # "inactive")]
            /\ approvals = [i \in 1..n |-> AggApproval(i, statuses[i])]
    /\ users = [u \in 0..MaxAggLen |->
                    [company_id |-> ExpenseCompany, is_active |-> TRUE]]
    /\ expense = [id |-> ExpenseId, company_id |-> ExpenseCompany,
                  category_id |-> ExpenseCategory, user_id |-> ExpenseOwner,
                  status |-> "pending"]
    /\ sess = [s \in Sessions |-> IdleSession]
    /\ ret = NoResponse
    /\ okCount = [u \in Approvers |-> 0]
    /\ fault_budget = 0
    /\ agg_status = NoValue
    /\ updates = 0
    /\ resolved = NoResolution
    /\ sweeps = NoSweep
    /\ notifications = [u \in Approvers |-> 0]
    /\ statistics = NoStatistics

SpecUnruled == InitUnruled /\ [][aggregate]_vars

(***************************************************************************)
(* Properties of the aggregation (SpecAgg).                                *)
(***************************************************************************)
\* The approval rows of the expense whose approver has an active rule of
\* the given type in the expense's category.
RowsOfType(type) ==
    {i \in 1..Len(approvals) :
        /\ approvals[i].expense_id = expense.id
        /\ \E j \in 1..Len(rules) :
            /\ rules[j].user_id = approvals[i].approver_id
            /\ rules[j].category_id = expense.category_id
            /\ rules[j].is_active
            /\ rules[j].approval_type = type}

RowsWith(type, status) ==
    {i \in RowsOfType(type) : approvals[i].status = status}

Aggregated == agg_status # NoValue

\* C5 (as claimed): when some compulsory approval is rejected the
\* aggregation returns rejected, whatever the other approvals are.
C5_CompulsoryVeto ==
    (Aggregated /\ RowsWith("compulsory", "rejected") # {})
        => agg_status = "rejected"

\* C6: when no compulsory approval is rejected and some compulsory approval
\* is pending, the aggregation returns pending for every tally of the
\* necessary approvals.
C6_CompulsoryBlocking ==
    (/\ Aggregated
     /\ RowsWith("compulsory", "rejected") = {}
     /\ RowsWith("compulsory", "pending") # {})
        => agg_status = "pending"

\* A pending compulsory approval next to necessary approvals that are all
\* approved, and the aggregation has run.
C6_Witness ==
    /\ agg_status = "pending"
    /\ RowsWith("compulsory", "rejected") = {}
    /\ RowsWith("compulsory", "pending") # {}
    /\ Cardinality(RowsOfType("necessary")) >= 2
    /\ RowsWith("necessary", "approved") = RowsOfType("necessary")

\* C7: when every compulsory approval is approved and there are n > 0
\* necessary approvals of which a are approved, the aggregation returns
\* rejected if a * 100 < 60 * n and approved otherwise.
C7_NecessaryQuorum ==
    LET a == Cardinality(RowsWith("necessary", "approved"))
        n == Cardinality(RowsOfType("necessary"))
    IN  (/\ Aggregated
         /\ RowsWith("compulsory", "approved") = RowsOfType("compulsory")
         /\ n > 0)
            => agg_status = IF a * 100 < 60 * n THEN "rejected" ELSE "approved"

\* 2 approved and 3 rejected necessary approvals out of 5 give rejected.
C7_Witness ==
    /\ agg_status = "rejected"
    /\ RowsWith("compulsory", "approved") = RowsOfType("compulsory")
    /\ Cardinality(RowsOfType("necessary")) = 5
    /\ Cardinality(RowsWith("necessary", "approved")) = 2
    /\ Cardinality(RowsWith("necessary", "rejected")) = 3

\* The case of C8: one compulsory approval, approved, and five necessary
\* approvals of which three are approved and two pending.
C8_Case ==
    /\ Aggregated
    /\ Cardinality(RowsOfType("compulsory")) = 1
    /\ RowsWith("compulsory", "approved") = RowsOfType("compulsory")
    /\ Cardinality(RowsOfType("necessary")) = 5
    /\ Cardinality(RowsWith("necessary", "approved")) = 3
    /\ Cardinality(RowsWith("necessary", "pending")) = 2

\* C8 (as claimed): in that case the aggregation does not return rejected
\* and the result is pending.
C8_StaysPending ==
    C8_Case => (agg_status # "rejected" /\ agg_status = "pending")

\* C8 (amended): in that case the aggregation does not return rejected; it
\* returns approved.
C8_Approved ==
    C8_Case => (agg_status # "rejected" /\ agg_status = "approved")

C8_Witness == C8_Case /\ agg_status = "approved"

(***************************************************************************)
(* Properties of the workflow creation (Spec).                             *)
(***************************************************************************)
\* Rule j names an approver the workflow creates an approval for.
Applicable(j) ==
    /\ rules[j].is_active
    /\ rules[j].category_id = expense.category_id
    /\ rules[j].company_id = expense.company_id
    /\ users[rules[j].user_id].is_active
    /\ users[rules[j].user_id].company_id = expense.company_id

NoApplicableRule == \A j \in 1..Len(rules) : ~ Applicable(j)

\* C9: for an expense without applicable rules, or without eligible
\* approvers, the workflow is the empty list, no approval exists, and the
\* expense status, once pending, is pending in every later state; the
\* aggregation of zero approvals is pending.
C9_EmptyWorkflowStaysPending ==
    NoApplicableRule =>
        /\ approvals = <<>>
        /\ expense.status \in {"draft", "pending"}
        /\ \A s \in Sessions :
            sess[s].pc = "submit_audit" =>
                /\ sess[s].wf_ret = <<>>
                /\ expense.status = "pending"
        /\ ret.value = "submitted" =>
                /\ ret.call.wf_ret = <<>>
                /\ expense.status = "pending"
        /\ \A rules_ \in CategoryRules(rules, expense.category_id) :
            _calculate_expense_status(<<>>, rules_) = "pending"

\* A submission answered for an expense whose only rules name the
\* deactivated user.
C9_Witness ==
    /\ NoApplicableRule
    /\ \E j \in 1..Len(rules) : rules[j].is_active
    /\ ret.value = "submitted"
    /\ ret.call.wf_ret = <<>>
    /\ expense.status = "pending"

\* C10: no two Approval rows have the same expense and approver; a workflow
\* that reaches a second rule naming the same approver adds nothing.
C10_OneApprovalPerApprover ==
    \A i, j \in 1..Len(approvals) :
        (/\ approvals[i].expense_id = approvals[j].expense_id
         /\ approvals[i].approver_id = approvals[j].approver_id) => i = j

\* A submission answered after its workflow stopped at the second of two
\* active rules naming the same approver.
C10_Witness ==
    /\ \E i, j \in 1..Len(rules) :
        /\ i # j
        /\ Applicable(i) /\ Applicable(j)
        /\ rules[i].user_id = rules[j].user_id
    /\ Len(approvals) = 1
    /\ ret.value = "submitted"
    /\ ret.call.wf_ret = <<>>

(***************************************************************************)
(* Properties of the decision processing.                                  *)
(***************************************************************************)
\* The committed Approval rows with the given id.
RowsById(table, id) == {i \in 1..Len(table) : table[i].id = id}

Decided(table, id) ==
    \E i \in RowsById(table, id) : table[i].status \in Decisions

\* The response just given is that of a decide call that went through to
\* its end.
DecideAnswered == ret.session # NoValue /\ ret.call.pc = "commit"

\* C3: with a working storage and one request at a time, a decide call on a
\* pending approval by its approver returns success, and a decide call on
\* the approval after that returns the already-decided error and leaves
\* the approval's status, comments and decided-at and the expense status as
\* the first call left them.
C3_SecondDecideRefused ==
    [][fault_budget' = MaxFaults =>
        /\ DecideAnswered' =>
            /\ ret'.value = "ok"
            /\ \A i \in RowsById(approvals', ret'.call.aid) :
                /\ approvals'[i].status = ret'.call.status
                /\ approvals'[i].comments = ret'.call.comments
                /\ approvals'[i].approved_at = ret'.call.approved_at
        /\ \A s \in Sessions :
            LET request == IF ret'.session = s THEN ret'.call ELSE sess'[s]
            IN  (/\ sess[s].pc = "idle"
                 /\ request.aid # 0
                 /\ \E i \in RowsById(approvals, request.aid) :
                        /\ approvals[i].approver_id = request.user
                        /\ approvals[i].status \in Decisions)
                    => /\ ret'.session = s
                       /\ ret'.value = "already_processed"
                       /\ approvals' = approvals
                       /\ expense' = expense
    ]_vars

\* An approval decided by a call that returned success, and the same
\* approver's next call on it just refused.
C3_Witness ==
    /\ fault_budget = MaxFaults
    /\ ret.value = "already_processed"
    /\ okCount[ret.call.user] = 1
    /\ Decided(approvals, ret.call.aid)
    /\ expense.status \in Decisions

\* C4 (as claimed): the approval update, the aggregation and the write of
\* the expense status are one atomic unit: the approval is not committed as
\* decided while its call has yet to aggregate or to write the expense
\* status, and a call that fails has applied either all of them or none.
C4_AtomicDecision ==
    /\ \A s \in Sessions :
        sess[s].pc \in {"calculate", "commit"}
            => ~ Decided(approvals, sess[s].aid)
    /\ (DecideAnswered /\ ret.value = "error")
            => \/ ~ Decided(approvals, ret.call.aid)
               \/ expense.status = ret.call.computed

\* C1 (as claimed): of the decide calls the same approver sends for one
\* pending approval, at most one returns success.
C1_AtMostOneSuccess ==
    \A u \in Approvers : okCount[u] <= 1

\* The case of C2: the expense has two approvals, of two approvers with one
\* compulsory rule each; both are decided, each by one successful call, and
\* the later of the two calls has just returned.
C2_Case ==
    /\ \A s \in Sessions : sess[s].pc = "idle"
    /\ DecideAnswered
    /\ Len(approvals) = 2
    /\ \A i \in 1..2 :
        /\ approvals[i].status \in Decisions
        /\ okCount[approvals[i].approver_id] = 1
        /\ \A j \in 1..Len(rules) :
            rules[j].user_id = approvals[i].approver_id
                => rules[j].approval_type = "compulsory"

\* C2 (as claimed): when two approvers decide two compulsory approvals of
\* one expense, in every interleaving of the two calls both return success
\* and the expense status stored at the end is the one the two decisions
\* give when applied one after the other: rejected when one of them is a
\* rejection, approved otherwise.
C2_NoLostUpdate ==
    C2_Case =>
        /\ ret.value = "ok"
        /\ expense.status =
            IF \E i \in 1..2 : approvals[i].status = "rejected"
                THEN "rejected" ELSE "approved"

(***************************************************************************)
(* Properties of the operations on approvals (SpecUpdate).                 *)
(***************************************************************************)
\* C11 (as claimed): whatever operation is applied to approvals, the status
\* of an Approval changes only from pending to approved or from pending to
\* rejected.
C11_StatusChangesOnce ==
    [][\A i \in 1..Len(approvals) :
        approvals'[i].status # approvals[i].status
            => /\ approvals[i].status = "pending"
               /\ approvals'[i].status \in Decisions]_vars

(***************************************************************************)
(* Properties of the workflow creation, continued.                         *)
(***************************************************************************)
\* The approvers the workflow of the expense is to have approvals for.
EligibleApprovers ==
    {rules[j].user_id : j \in {k \in 1..Len(rules) : Applicable(k)}}

\* The approvers that have a committed Approval row of the expense.
ApproversWithRow ==
    {approvals[i].approver_id :
        i \in {k \in 1..Len(approvals) : approvals[k].expense_id = expense.id}}

\* C12 (as claimed): the workflow is created all or nothing: the committed
\* Approval rows of the expense are those of all eligible approvers or
\* none, during the call as well as after it.
C12_AllOrNothing ==
    ApproversWithRow = {} \/ ApproversWithRow = EligibleApprovers

(***************************************************************************)
(* Properties of the decision processing, continued.                       *)
(***************************************************************************)
\* The decide request session s starts in this step, if it starts one:
\* the call the step answers or leaves in progress.
DecideRequest(s) == IF ret'.session = s THEN ret'.call ELSE sess'[s]

StartsDecide(s) ==
    /\ sess[s].pc = "idle"
    /\ DecideRequest(s).aid # 0
    /\ DecideRequest(s).pc \in {"idle", "audit"}

\* C13: a decide call on an approval of another approver gets the answer a
\* decide call on an approval id that does not exist gets, and neither
\* changes an approval or the expense.
C13_NotFoundOrForbidden ==
    [][\A s \in Sessions :
        (/\ StartsDecide(s)
         /\ \A i \in 1..Len(approvals) :
                approvals[i].id = DecideRequest(s).aid
                    => approvals[i].approver_id # DecideRequest(s).user)
            => /\ ret'.session = s
               /\ ret'.value = "not_found"
               /\ approvals' = approvals
               /\ expense' = expense]_vars

\* A decide call on a pending approval by a user who is not its approver
\* has just been answered.
C13_Witness ==
    /\ ret.value = "not_found"
    /\ ret.call.pc = "idle"
    /\ \E i \in 1..Len(approvals) :
        /\ approvals[i].id = ret.call.aid
        /\ approvals[i].approver_id # ret.call.user
        /\ approvals[i].status = "pending"

\* C14 (as claimed): while the stored status of the expense is approved,
\* every compulsory approval of the expense is approved.
C14_ApprovedNeedsCompulsory ==
    expense.status = "approved"
        => RowsOfType("compulsory") = RowsWith("compulsory", "approved")

\* C15 (as claimed): when the notification to the expense owner fails after
\* the decision has been committed, the decide call returns success.
C15_NotificationFailureIgnored ==
    (ret.session # NoValue /\ ret.call.pc = "notify") => ret.value = "ok"

(***************************************************************************)
(* Properties of the workflow creation under storage faults (SpecFaults).  *)
(***************************************************************************)
\* The workflow of session s has returned after create_notification failed
\* for an approver without an Approval row: the loop was left at a rule it
\* neither skipped nor found a row for.
NotificationFailed(s) ==
    /\ sess[s].pc = "submit_audit"
    /\ sess[s].wf_i \in 1..Len(sess[s].wf_rules)
    /\ sess[s].wf_rules[sess[s].wf_i].user_id \notin ApproversWithRow

\* C16 (as claimed): when the notification to an approver fails while the
\* workflow is built, the Approval rows of all eligible approvers are
\* still created and returned.
C16_NotificationFailureKeepsWorkflow ==
    \A s \in Sessions :
        NotificationFailed(s) =>
            /\ ApproversWithRow = EligibleApprovers
            /\ Len(sess[s].wf_ret) = Cardinality(EligibleApprovers)

(***************************************************************************)
(* Properties of the workflow creation with one request at a time and a    *)
(* working storage (SpecUpdate).                                           *)
(***************************************************************************)
\* No two rules the workflow applies name the same approver.
DistinctApprovers ==
    \A i, j \in 1..Len(rules) :
        (Applicable(i) /\ Applicable(j) /\ rules[i].user_id = rules[j].user_id)
            => i = j

\* The rules the workflow creates an approval for.
ApplicableRules == {j \in 1..Len(rules) : Applicable(j)}

\* What a step of the workflow creation does: a row it adds is a pending
\* Approval of the expense for an eligible approver without one; when the
\* workflow returns there is one Approval for each applicable rule, and
\* they are the list it returns.
WorkflowCreatesEligible ==
    /\ Len(approvals') > Len(approvals) =>
        /\ Len(approvals') = Len(approvals) + 1
        /\ approvals'[Len(approvals')].status = "pending"
        /\ approvals'[Len(approvals')].expense_id = expense.id
        /\ approvals'[Len(approvals')].approver_id
                \in EligibleApprovers \ ApproversWithRow
    /\ \A s \in Sessions :
        sess'[s].pc = "submit_audit" =>
            /\ ApproversWithRow' = EligibleApprovers
            /\ Len(approvals') = Cardinality(ApplicableRules)
            /\ Len(sess'[s].wf_ret) = Cardinality(ApplicableRules)

\* C17 (as claimed): the workflow creates exactly one Approval with status
\* pending for each active rule of the category whose approver exists, is
\* active and belongs to the expense's company, and none for another rule;
\* an ineligible approver is skipped and the others get their approvals.
C17_OneApprovalPerRule == [][WorkflowCreatesEligible]_vars

\* The same restricted to rule tables in which no two applicable rules name
\* the same approver; this holds.
OneApprovalPerDistinctApprover ==
    [][DistinctApprovers => WorkflowCreatesEligible]_vars

\* A submission answered whose workflow skipped a rule naming the
\* deactivated user and created the approval of the other rule.
SkippedRuleWitness ==
    /\ DistinctApprovers
    /\ ret.value = "submitted"
    /\ Len(ret.call.wf_ret) = 1
    /\ Cardinality(ApproversWithRow) = 1
    /\ ApproversWithRow = EligibleApprovers
    /\ \E j \in 1..Len(rules) : rules[j].is_active /\ ~ Applicable(j)

(***************************************************************************)
(* Properties of the rule resolution (SpecResolve).                        *)
(***************************************************************************)
\* The active rules of the resolved company for the resolved category.
CategorySpecific ==
    {i \in 1..Len(rules) :
        /\ rules[i].is_active
        /\ rules[i].company_id = resolved.company_id
        /\ rules[i].category_id = resolved.category_id}

\* The active company-wide rules of the resolved company whose approver
\* has no rule for the resolved category.
CompanyWide ==
    {i \in 1..Len(rules) :
        /\ rules[i].is_active
        /\ rules[i].company_id = resolved.company_id
        /\ rules[i].category_id = NoValue
        /\ \A j \in CategorySpecific : rules[j].user_id # rules[i].user_id}

\* C18 (as claimed): the resolution returns, in ascending order index, the
\* active rules of the company for the category and the company's active
\* company-wide rules whose approver has no rule for the category, each
\* once, and no other rule.
C18_ResolveWithCompanyWide ==
    resolved # NoResolution =>
        /\ {resolved.rules[k].id : k \in 1..Len(resolved.rules)}
                = {rules[i].id : i \in CategorySpecific \cup CompanyWide}
        /\ Len(resolved.rules) = Cardinality(CategorySpecific \cup CompanyWide)
        /\ IsSortedByOrderIndex(resolved.rules)

(***************************************************************************)
(* Frame of the expense status (Spec).                                     *)
(***************************************************************************)
\* The step is the last step of a decide call: process_approval_commit of
\* some session.
DecideCommits ==
    \E s \in Sessions : sess[s].pc = "commit" /\ sess'[s].pc = "idle"

\* C19 (as claimed): once the expense is submitted (its status is not
\* draft), every step that changes its status is the commit of a decide
\* call, and the status never returns to draft; a submit of the expense
\* leaves the status of a submitted expense unchanged.
C19_OnlyDecideChangesStatus ==
    [][(expense.status # "draft" /\ expense'.status # expense.status)
            => (DecideCommits /\ expense'.status # "draft")]_vars

(***************************************************************************)
(* Failed decide calls (SpecFaults).                                       *)
(***************************************************************************)
\* The response just given is the failure of a decide call that had loaded
\* its approval: the exception path of lines 201-204.
DecideFailed ==
    /\ ret.session # NoValue
    /\ ret.value = "error"
    /\ ret.call.pc \in {"audit", "commit", "notify"}

\* C20 (as claimed): a decide call that returns failure has left the
\* approval pending, with the comments and decided-at it had, and the
\* expense status as the call found it, so that the same call sent again
\* finds a pending approval and succeeds.
C20_FailedDecideChangesNothing ==
    DecideFailed =>
        /\ \A i \in RowsById(approvals, ret.call.aid) :
                /\ StillPending(approvals[i])
                /\ approvals[i].comments = NoValue
                /\ approvals[i].approved_at = 0
        /\ expense.status = ret.call.exp_status

(***************************************************************************)
(* Properties of the overdue sweep (SpecSweep).                            *)
(***************************************************************************)
\* The ids of the pending approvals created more than T days before the
\* day of the sweep.
StaleIds(T) ==
    {approvals[i].id : i \in {j \in 1..Len(approvals) :
                                /\ approvals[j].status = "pending"
                                /\ approvals[j].created_at < MaxDay - T}}

\* C21 (as claimed): a sweep with the threshold of 3 days returns exactly
\* the pending approvals created more than 3 days before: one created 4
\* days before is returned, one created 2 days before is not, and an
\* approved or rejected approval is never returned.
C21_SweepReturnsStale ==
    sweeps.runs > 0 =>
        {sweeps.result[k] : k \in 1..Len(sweeps.result)} = StaleIds(3)

\* The approvers of the pending approvals created more than T days before
\* the day of the sweep.
StaleApprovers(T) ==
    {approvals[i].approver_id : i \in {j \in 1..Len(approvals) :
                                        approvals[j].id \in StaleIds(T)}}

\* The step is a run of the overdue sweep.
SweepRuns == sweeps'.runs = sweeps.runs + 1

\* A sweep changes no approval and not the expense, and returns the set of
\* approvals the sweep before it returned.
SweepFrame ==
    [][SweepRuns =>
        /\ approvals' = approvals
        /\ expense' = expense
        /\ sweeps.runs > 0 =>
              {sweeps'.result[k] : k \in 1..Len(sweeps'.result)}
                = {sweeps.result[k] : k \in 1..Len(sweeps.result)}]_vars

\* C22 (as claimed): every run of the sweep leaves the approvals and the
\* expense as they are and notifies the approver of every stale approval,
\* the second run like the first.
C22_SweepRenotifies ==
    [][SweepRuns =>
        /\ approvals' = approvals
        /\ expense' = expense
        /\ \A u \in StaleApprovers(3) : notifications'[u] > notifications[u]]_vars

(***************************************************************************)
(* Properties of the statistics (SpecStats).                               *)
(***************************************************************************)
\* The number of approvals of the approver of the statistics with the
\* status, created inside the window of the statistics.
CountInWindow(status) ==
    Cardinality({i \in 1..Len(approvals) :
        /\ approvals[i].approver_id = statistics.approver
        /\ approvals[i].status = status
        /\ statistics.start_date # <<>>
                => approvals[i].created_at >= statistics.start_date[1]
        /\ statistics.end_date # <<>>
                => approvals[i].created_at <= statistics.end_date[1]})

\* C23 (as claimed): the pending, approved and rejected counts of the
\* statistics are the numbers of the approver's approvals with that status
\* created inside the window; for an empty window all of them are zero.
C23_StatsInsideWindow ==
    statistics # NoStatistics =>
        /\ statistics.result.pending = CountInWindow("pending")
        /\ statistics.result.approved = CountInWindow("approved")
        /\ statistics.result.rejected = CountInWindow("rejected")

\* The approved and rejected counts are those of the window.
StatsDecidedInsideWindow ==
    statistics # NoStatistics =>
        /\ statistics.result.approved = CountInWindow("approved")
        /\ statistics.result.rejected = CountInWindow("rejected")

(***************************************************************************)
(* The stored status after a decide call (SpecFaults, no fault injected).  *)
(***************************************************************************)
\* The results of the aggregation over the expense's approvals and the
\* active rules of its category as they stand, for the orders in which
\* the rows can be read.
CurrentAggregates ==
    {_calculate_expense_status(approvals_, rules_) :
        approvals_ \in Orders(ExpenseApprovals(approvals, expense.id)),
        rules_ \in CategoryRules(rules, expense.category_id)}

\* The response just given is the success of a decide call, and the
\* storage has not failed.
DecideSucceeded ==
    /\ DecideAnswered
    /\ ret.value = "ok"
    /\ fault_budget = MaxFaults

StoredStatusIsEveryAggregate ==
    DecideSucceeded => CurrentAggregates = {expense.status}

(***************************************************************************)
(* Order of the rows in the aggregation (SpecAgg).                         *)
(***************************************************************************)
\* The sequence with the rows at positions i and j exchanged.
Exchanged(seq, i, j) ==
    [k \in 1..Len(seq) |->
        IF k = i THEN seq[j] ELSE IF k = j THEN seq[i] ELSE seq[k]]

\* C25 (as claimed): the aggregation changes no approval, no rule and not
\* the expense, and its result is the same when two approval rows, or two
\* rule rows, are read in the opposite order; every order of the rows
\* comes from such exchanges.
C25_OrderIndependent ==
    [][agg_status' # agg_status =>
        /\ approvals' = approvals /\ rules' = rules /\ expense' = expense
        /\ \A i, j \in 1..Len(approvals) :
            _calculate_expense_status(Exchanged(approvals, i, j), rules)
                = agg_status'
        /\ \A i, j \in 1..Len(rules) :
            _calculate_expense_status(approvals, Exchanged(rules, i, j))
                = agg_status']_vars

(***************************************************************************)
(* Approvals without an active rule (SpecUnruled).                         *)
(***************************************************************************)
\* The approvals whose approver has no active rule in the expense's
\* category, as positions of their rows.
Unruled ==
    {i \in 1..Len(approvals) :
        \A j \in 1..Len(rules) :
            rules[j].user_id = approvals[i].approver_id
                => ~ (rules[j].is_active
                        /\ rules[j].category_id = expense.category_id)}

\* The approvals with the status of the row at position i replaced.
WithStatus(i, status) ==
    [approvals EXCEPT ![i] = AggApproval(approvals[i].id, status)]

\* C26: an approval whose approver has no active rule in the expense's
\* category is in neither the compulsory nor the necessary group, and the
\* result of the aggregation is the same whatever its status is.
C26_UnruledDoesNotVote ==
    agg_status # NoValue =>
        LET rules_ == ActiveCategoryRules(rules, expense.category_id)
        IN  \A i \in Unruled :
                /\ MatchingRuleType(approvals[i], rules_) = NoValue
                /\ \A k \in 1..Len(compulsory_approvals(approvals, rules_)) :
                    compulsory_approvals(approvals, rules_)[k].id
                        # approvals[i].id
                /\ \A k \in 1..Len(necessary_approvals(approvals, rules_)) :
                    necessary_approvals(approvals, rules_)[k].id
                        # approvals[i].id
                /\ \A status \in ApprovalStatus :
                    _calculate_expense_status(WithStatus(i, status), rules_)
                        = agg_status

\* The aggregation has run over a pending approval without an active rule
\* and an approval with one, and the result is not pending.
C26_Witness ==
    /\ agg_status \in Decisions
    /\ \E i \in Unruled : approvals[i].status = "pending"
    /\ \E j \in 1..Len(approvals) : j \notin Unruled

(***************************************************************************)
(* Sequential rules (SpecSequential).                                      *)
(***************************************************************************)
\* The active rules of the expense's category that name the approver.
RulesOf(approver) ==
    {j \in 1..Len(rules) :
        /\ rules[j].user_id = approver
        /\ rules[j].is_active
        /\ rules[j].category_id = expense.category_id}

\* The approval at position i comes after a pending approval of the
\* expense in the order of sequential rules.
AfterPending(i) ==
    \E k \in 1..Len(approvals) :
        /\ approvals[k].status = "pending"
        /\ approvals[k].expense_id = approvals[i].expense_id
        /\ RulesOf(approvals[i].approver_id) # {}
        /\ \E rk \in RulesOf(approvals[k].approver_id) :
            \A ri \in RulesOf(approvals[i].approver_id) :
                /\ rules[rk].is_sequential
                /\ rules[ri].is_sequential
                /\ rules[rk].order_index < rules[ri].order_index

\* The step accepts a decide call of session s: process_approval has
\* passed its checks.
DecideAccepted(s) == sess[s].pc = "idle" /\ sess'[s].pc = "audit"

\* C27 (as claimed): when the rules are flagged sequential, a decide call
\* on an approval is not accepted while an approval of the expense whose
\* rule has a lower order index is pending.
C27_SequentialOrder ==
    [][\A s \in Sessions :
        DecideAccepted(s) =>
            \A i \in RowsById(approvals, sess'[s].aid) : ~ AfterPending(i)]_vars

(***************************************************************************)
(* Absorbing statuses.                                                     *)
(***************************************************************************)
\* The step is the last step of a decide call that found the expense with
\* the status when it loaded its approval.
DecideCommitsFrom(status) ==
    \E s \in Sessions :
        /\ sess[s].pc = "commit"
        /\ sess'[s].pc = "idle"
        /\ sess[s].exp_status = status

\* C28 (as claimed): a decide call on a pending approval that finds the
\* expense approved leaves it approved.
C28_ApprovedAbsorbing ==
    [][(expense.status = "approved" /\ DecideCommitsFrom("approved"))
            => expense'.status = "approved"]_vars

\* C29 (as claimed): a decide call on a pending approval that finds the
\* expense rejected leaves it rejected.
C29_RejectedAbsorbing ==
    [][(expense.status = "rejected" /\ DecideCommitsFrom("rejected"))
            => expense'.status = "rejected"]_vars

(***************************************************************************)
(* The expense leaves pending (Spec).                                      *)
(***************************************************************************)
\* The expense has approvals, every one of them is decided, and no request
\* is in flight.
AllDecidedAndQuiet ==
    /\ approvals # <<>>
    /\ \A i \in 1..Len(approvals) : approvals[i].status \in Decisions
    /\ \A s \in Sessions : sess[s].pc = "idle"

\* C30 (as claimed): when every approval of the expense is decided and
\* every call has completed, the stored expense status is approved or
\* rejected, also when the requests ran concurrently.
C30_DecidedLeavesPending ==
    AllDecidedAndQuiet => expense.status \in Decisions

====
